---------------------------- MODULE Spec2Model ----------------------------
(***************************************************************************)
(* Model of the pixelator rendering core, src/src/utils/canvasEngine.ts.   *)
(*                                                                         *)
(* processImage is modelled as a state machine: one step for the set-up    *)
(* of a call (contexts, working size, source rectangle, background), one   *)
(* step per grid cell of the row-major scan, one step for the return.      *)
(* JavaScript numbers are modelled by exact rationals [n, d]; colours are  *)
(* records [r, g, b].  The pure parts of the pipeline (quantizer, colour   *)
(* chain, source rectangle) are operators, exercised on wider input sets   *)
(* by the specifications SpecQuantizer, SpecColour and SpecRect.           *)
(*                                                                         *)
(* The React component App (src/unnamed/part_000) that calls processImage  *)
(* is modelled by the specification SpecApp: its state, its handlers, the  *)
(* 50 ms timers of its re-processing effect and the calls they make.       *)
(***************************************************************************)
EXTENDS Integers, Sequences, FiniteSets

VARIABLES
    image,      \* the HTMLImageElement argument: [width, height, pat]
    options,    \* the ProcessOptions argument
    canvas,     \* the target canvas: [ctx, width, height, bg, cells]
    offCtx,     \* whether the offscreen canvas yields a 2D context
    pc,         \* position of processImage: "idle", "scan", "done", "threw", ...
    work,       \* locals of the running call: workWidth, workHeight, cellSize, rows, src
    seed,       \* the local `let seed` of processImage (line 172)
    pos,        \* number of cells the scan has completed (row-major)
    cell,       \* locals of the last cell body: sampled colour, target, stages
    runs,       \* number of calls of processImage made so far
    prevOut,    \* canvas cells left by the previous completed call (history)
    samp,       \* locals of the sampling loops of the last cell: r, g, b, count
    app,        \* the React state of App (part_000)
    timers,     \* pending setTimeout callbacks of App, oldest first
    calls       \* the calls of processImage App has made, oldest first (history)

vars == <<image, options, canvas, offCtx, pc, work, seed, pos, cell, runs, prevOut,
          samp, app, timers, calls>>

---------------------------------------------------------------------------
(* JavaScript number arithmetic, as exact rationals [n |-> num, d |-> den] *)
(* with d > 0, kept in lowest terms.  Rounding error of IEEE doubles is    *)
(* not modelled.                                                           *)

Abs(a) == IF a < 0 THEN -a ELSE a

RECURSIVE GCD(_, _)
GCD(a, b) == IF b = 0 THEN a ELSE GCD(b, a % b)

Norm(n, d) ==
    LET g == GCD(Abs(n), d)
    IN  IF n = 0 THEN [n |-> 0, d |-> 1] ELSE [n |-> n \div g, d |-> d \div g]

RI(i) == [n |-> i, d |-> 1]

\* a decimal literal of the source: Dec(2989, 10000) is 0.2989
Dec(n, d) == Norm(n, d)

RAdd(a, b) ==
    LET g == GCD(a.d, b.d)
    IN  Norm(a.n * (b.d \div g) + b.n * (a.d \div g), (a.d \div g) * b.d)

RNeg(a) == [n |-> -a.n, d |-> a.d]

RSub(a, b) == RAdd(a, RNeg(b))

RMul(a, b) ==
    LET g1 == GCD(Abs(a.n), b.d)
        g2 == GCD(Abs(b.n), a.d)
    IN  IF a.n = 0 \/ b.n = 0 THEN RI(0)
        ELSE Norm((a.n \div g1) * (b.n \div g2), (a.d \div g2) * (b.d \div g1))

\* a / b for b > 0 (the divisors of the source are zoom, gridSize, cellSize, count)
RDiv(a, b) == RMul(a, [n |-> b.d, d |-> b.n])

RLt(a, b) == a.n * b.d < b.n * a.d

RLe(a, b) == a.n * b.d <= b.n * a.d

RMin(a, b) == IF RLt(b, a) THEN b ELSE a

RMax(a, b) == IF RLt(a, b) THEN b ELSE a

\* Math.floor
RFloor(a) == a.n \div a.d

\* Math.ceil
RCeil(a) == -((-a.n) \div a.d)

\* Math.round: the nearest integer, halves towards +Infinity
RRound(a) == RFloor(RAdd(a, Dec(1, 2)))

\* a % m of JavaScript for a >= 0 and an integer m > 0
RMod(a, m) == RSub(a, RI(m * RFloor(RDiv(a, RI(m)))))

---------------------------------------------------------------------------
(* Colours and the quantizer                                               *)

RGB(r, g, b) == [r |-> r, g |-> g, b |-> b]

\* a colour whose channels are NaN (all three always are together), as left by
\* `r += imgData[index]` on an index outside the pixel data
NaNColour == RGB(-1, -1, -1)

IsNaN(c) == c.r < 0

DESATURATE_PALETTE ==
    << RGB(255, 0, 0), RGB(255, 255, 0), RGB(0, 255, 0), RGB(0, 0, 255),
       RGB(255, 0, 255), RGB(0, 0, 0), RGB(255, 255, 255) >>

\* Math.pow(r - c.r, 2) + Math.pow(g - c.g, 2) + Math.pow(b - c.b, 2)
Dist2(c, p) == (c.r - p.r) * (c.r - p.r) + (c.g - p.g) * (c.g - p.g)
                 + (c.b - p.b) * (c.b - p.b)

\* The initial minDistance.  Distances are compared through their squares:
\* Math.sqrt is strictly increasing on the integers below 3 * 255^2 + 1.
Infinity == 3 * 255 * 255 + 1

RECURSIVE ClosestLoop(_, _, _, _)
\* the loop with `dist <= minDistance`
ClosestLoopLastWins(c, palette, i, st) ==
    IF i > Len(palette) THEN st.closest
    ELSE LET dist == Dist2(c, palette[i])
         IN  IF dist <= st.min
             THEN ClosestLoop(c, palette, i + 1, [min |-> dist, closest |-> palette[i]])
             ELSE ClosestLoop(c, palette, i + 1, st)

\* the for-of loop of getClosestColor from index i on; st = [min, closest]
ClosestLoop(c, palette, i, st) ==
    IF i > Len(palette) THEN st.closest
    ELSE LET dist == Dist2(c, palette[i])
         IN  IF dist < st.min
             THEN ClosestLoop(c, palette, i + 1, [min |-> dist, closest |-> palette[i]])
             ELSE ClosestLoop(c, palette, i + 1, st)

\* getClosestColor without the early return of line 80
getClosestColorNoGuard(c, palette) ==
    ClosestLoop(c, palette, 1, [min |-> Infinity, closest |-> RGB(0, 0, 0)])

\* lines 79-92
getClosestColor(c, palette) ==
    IF Len(palette) = 0 THEN c
    ELSE ClosestLoop(c, palette, 1, [min |-> Infinity, closest |-> palette[1]])

---------------------------------------------------------------------------
(* The jitter source                                                       *)

\* floor(100 * frac(Math.sin(s) * 10000)) for s = 1 .. 320: the values of
\* prng(s), truncated to two decimals
PrngTable ==
    <<
       70, 97, 20, 97, 75, 84, 86, 58, 18, 78,  9, 27, 67,  7, 87, 96,  2, 12, 77, 45,
       55, 48, 79, 21, 48, 58, 75,  5, 66, 68, 62, 26, 11, 82, 17, 21, 61, 68, 95, 13,
       77, 78, 25,  1,  3, 88, 73, 45, 47, 25, 29, 27, 25, 10, 44, 48, 64, 72, 38, 89,
       82, 19, 55, 26, 28, 48, 80, 72, 15, 90, 54, 23, 28, 53, 18,  7, 20, 78, 87, 11,
       12, 28, 64, 90, 24, 41, 82, 98, 69, 96, 87, 33, 17, 48, 61, 87,  7, 18, 93, 34,
       25, 26, 88, 77, 64, 57, 81, 18, 42, 57, 48,  4, 18, 80, 35, 61,  2, 47, 95, 11,
       15, 13, 96, 13, 59, 90, 30, 37, 26, 94, 96, 83, 65, 24, 68, 66, 85, 47, 80, 39,
       71,  4, 54, 78, 45, 69, 44, 66, 51, 23, 49, 20,  0, 79, 88, 15, 51, 24, 19, 25,
       92, 49, 89, 32, 97, 91, 49, 26,  0, 49, 90, 59, 89, 38, 65, 52, 89, 75, 22, 47,
       48, 18, 80, 84, 21, 76, 28, 76, 17, 99,  8, 61, 43, 13, 54, 30,  5, 21,  1,  2,
        9, 18,  9, 20,  2, 58, 94, 67, 66, 18, 52, 52, 29, 99, 45, 58, 18, 75, 85, 98,
       38, 50, 53, 79,  5, 56, 58, 23, 62, 35, 15, 23, 39, 16, 86, 67, 42, 23, 90, 45,
       61, 88, 90, 63, 87, 59,  7, 52, 36, 71,  6, 12, 23, 98,  8, 91, 42, 35, 93, 39,
       18,  8, 52, 17, 10, 54, 68, 64, 53, 54, 10, 56,  0, 88, 14, 14,  4, 21, 82, 90,
       48, 50, 52, 63, 71, 85, 59, 95, 78, 45, 14, 25, 99, 90, 18, 61, 69, 37, 23, 44,
       35, 52, 32,  6, 96, 38, 64,  3,  1, 87, 71,  8, 90,  7, 33, 87, 39, 38, 25, 44
    >>

\* prng(seed): x = Math.sin(seed) * 10000; x - Math.floor(x); prng(0) is 0.  The
\* seed++ inside prng increments its own parameter only.
prng(s) == IF s = 0 THEN RI(0) ELSE Dec(PrngTable[s], 100)

---------------------------------------------------------------------------
(* The colour chain of one cell (lines 202-291)                            *)

\* an optional field that is absent
Undefined == [n |-> 1, d |-> 0]

\* options.brightness !== undefined ? options.brightness : 1.0
OrOne(v) == IF v = Undefined THEN RI(1) ELSE v

\* one channel of the jitter: (target + prng(seed) * 50) % 255
JitterChannel(v, s) == RMod(RAdd(RI(v), RMul(prng(s), RI(50))), 255)

\* lines 203-208 without the guard options.randomSeed > 0
JitterUnguarded(c, sd, opts) ==
    [t |-> [r |-> JitterChannel(c.r, sd), g |-> JitterChannel(c.g, sd + 1),
            b |-> JitterChannel(c.b, sd + 2)],
     seed |-> sd + 3]

\* lines 203-208 with one draw shared by the three channels
JitterOneDraw(c, sd, opts) ==
    IF opts.randomSeed > 0
    THEN [t |-> [r |-> JitterChannel(c.r, sd), g |-> JitterChannel(c.g, sd),
                 b |-> JitterChannel(c.b, sd)],
          seed |-> sd + 1]
    ELSE [t |-> [r |-> RI(c.r), g |-> RI(c.g), b |-> RI(c.b)], seed |-> sd]

\* lines 203-208: [t |-> the three targets, seed |-> the running seed afterwards]
Jitter(c, sd, opts) ==
    IF opts.randomSeed > 0
    THEN [t |-> [r |-> JitterChannel(c.r, sd), g |-> JitterChannel(c.g, sd + 1),
                 b |-> JitterChannel(c.b, sd + 2)],
          seed |-> sd + 3]
    ELSE [t |-> [r |-> RI(c.r), g |-> RI(c.g), b |-> RI(c.b)], seed |-> sd]

\* Math.max(0, Math.min(255, Math.round(v)))
RoundClamp(v) ==
    LET k == RRound(v) IN IF k < 0 THEN 0 ELSE IF k > 255 THEN 255 ELSE k

\* lines 218-225 on the brightness-scaled channels and their grayVal
Saturate(tR, tG, tB, grayVal, saturation) ==
    RGB(RoundClamp(RAdd(grayVal, RMul(saturation, RSub(tR, grayVal)))),
        RoundClamp(RAdd(grayVal, RMul(saturation, RSub(tG, grayVal)))),
        RoundClamp(RAdd(grayVal, RMul(saturation, RSub(tB, grayVal)))))

\* 0.2989 * targetR + 0.5870 * targetG + 0.1140 * targetB
GrayVal(tR, tG, tB) ==
    RAdd(RAdd(RMul(Dec(2989, 10000), tR), RMul(Dec(5870, 10000), tG)),
         RMul(Dec(1140, 10000), tB))

\* lines 214-225
Brighten(tR, tG, tB, saturation) == Saturate(tR, tG, tB, GrayVal(tR, tG, tB), saturation)

\* lines 210-225: brightness, saturation, round and clamp
Adjust(t, opts) ==
    Brighten(RMul(t.r, OrOne(opts.brightness)), RMul(t.g, OrOne(opts.brightness)),
             RMul(t.b, OrOne(opts.brightness)), OrOne(opts.saturation))

\* Math.round(r * 0.299 + g * 0.587 + b * 0.114)
Luma(c) ==
    RRound(RAdd(RAdd(RMul(RI(c.r), Dec(299, 1000)), RMul(RI(c.g), Dec(587, 1000))),
                RMul(RI(c.b), Dec(114, 1000))))

Max3(a, b, c) == IF a >= b /\ a >= c THEN a ELSE IF b >= c THEN b ELSE c

Min3(a, b, c) == IF a <= b /\ a <= c THEN a ELSE IF b <= c THEN b ELSE c

\* A filter stage yields [threw, c]: reading .r of undefined raises a TypeError.
Ok(c) == [threw |-> FALSE, c |-> c]

Threw == [threw |-> TRUE, c |-> RGB(0, 0, 0)]

\* lines 229-232 with the contrast push reversed
NoirPushInverted(t, opts) ==
    LET gray == Luma(t)
        contrast == IF gray > 128 THEN (IF gray - 50 < 0 THEN 0 ELSE gray - 50)
                    ELSE (IF gray + 50 > 255 THEN 255 ELSE gray + 50)
    IN  Ok(getClosestColor(RGB(contrast, contrast, contrast), opts.palette))

\* lines 229-232
Noir(t, opts) ==
    LET gray == Luma(t)
        contrast == IF gray > 128 THEN (IF gray + 50 > 255 THEN 255 ELSE gray + 50)
                    ELSE (IF gray - 50 < 0 THEN 0 ELSE gray - 50)
    IN  Ok(getClosestColor(RGB(contrast, contrast, contrast), opts.palette))

\* options.palette.find(c => c.r === 255 && c.g === 127 && c.b === 0) || options.palette[0]
FindOrange(palette) ==
    LET hits == {i \in 1..Len(palette) : palette[i] = RGB(255, 127, 0)}
    IN  IF hits # {} THEN Ok(RGB(255, 127, 0))
        ELSE IF Len(palette) = 0 THEN Threw ELSE Ok(palette[1])

\* lines 256-265 with the matching chosen by the palette length alone
RequantizeBySizeOnly(t, opts) ==
    IF Len(opts.palette) > 5
    THEN Ok(getClosestColor(t, opts.palette))
    ELSE LET bVal == Luma(t)
             index == RFloor(RMul(RDiv(RI(bVal), RI(256)), RI(Len(opts.palette))))
             at == IF index < Len(opts.palette) - 1 THEN index ELSE Len(opts.palette) - 1
         IN  IF at < 0 THEN Threw ELSE Ok(opts.palette[at + 1])

\* lines 256-265: the re-quantization of rainbow / popart
Requantize(t, opts) ==
    IF Len(opts.palette) > 5 /\ opts.randomSeed > 0
    THEN Ok(getClosestColor(t, opts.palette))
    ELSE LET bVal == Luma(t)
             index == RFloor(RMul(RDiv(RI(bVal), RI(256)), RI(Len(opts.palette))))
             at == IF index < Len(opts.palette) - 1 THEN index ELSE Len(opts.palette) - 1
         IN  IF at < 0 THEN Threw ELSE Ok(opts.palette[at + 1])

\* lines 235-266 with the re-quantization skipped for every styled cell
RainbowStyledKept(t, opts) ==
    LET max == Max3(t.r, t.g, t.b)
        min == Min3(t.r, t.g, t.b)
        diff == max - min
        colBrightness == RDiv(RI(max + min), RI(2))
        grey == diff < 30
        brown == ~grey /\ t.r > t.g /\ t.g > t.b /\ t.r > 60 /\ diff < 120
        first == IF grey
                 THEN (IF RLt(colBrightness, RI(120)) THEN Ok(RGB(0, 0, 0))
                       ELSE Ok(RGB(255, 255, 255)))
                 ELSE IF brown THEN FindOrange(opts.palette) ELSE Ok(t)
        styled == grey \/ brown
    IN  IF first.threw THEN Threw
        ELSE IF ~styled THEN Requantize(t, opts)
        ELSE first

\* lines 235-266 with the re-quantization run for every cell
RainbowAlwaysRequantized(t, opts) ==
    LET max == Max3(t.r, t.g, t.b)
        min == Min3(t.r, t.g, t.b)
        diff == max - min
        grey == diff < 30
        brown == ~grey /\ t.r > t.g /\ t.g > t.b /\ t.r > 60 /\ diff < 120
        first == IF brown THEN FindOrange(opts.palette) ELSE Ok(t)
    IN  IF first.threw THEN Threw ELSE Requantize(t, opts)

\* lines 235-266: rainbow and popart
Rainbow(t, opts) ==
    LET max == Max3(t.r, t.g, t.b)
        min == Min3(t.r, t.g, t.b)
        diff == max - min
        colBrightness == RDiv(RI(max + min), RI(2))
        grey == diff < 30
        brown == ~grey /\ t.r > t.g /\ t.g > t.b /\ t.r > 60 /\ diff < 120
        first == IF grey
                 THEN (IF RLt(colBrightness, RI(120)) THEN Ok(RGB(0, 0, 0))
                       ELSE Ok(RGB(255, 255, 255)))
                 ELSE IF brown THEN FindOrange(opts.palette) ELSE Ok(t)
        styled == grey \/ brown
    IN  IF first.threw THEN Threw
        ELSE IF ~styled \/ opts.filter = "popart" THEN Requantize(t, opts)
        ELSE first

\* lines 228-269
StyleFilter(t, opts) ==
    IF opts.filter = "noir" THEN Noir(t, opts)
    ELSE IF opts.filter = "rainbow" \/ opts.filter = "popart" THEN Rainbow(t, opts)
    ELSE Ok(t)

\* lines 272-275 applied after filter none only
DesaturateIfNone(c, opts) ==
    IF opts.isDesaturated /\ opts.filter = "none"
    THEN getClosestColor(c, DESATURATE_PALETTE) ELSE c

\* lines 272-275
Desaturate(c, opts) ==
    IF opts.isDesaturated THEN getClosestColor(c, DESATURATE_PALETTE) ELSE c

\* lines 280-291 with the test on the 0-based indices
BlinkZeroBased(c, x, y, opts) ==
    IF opts.blinkState /\ (x % 10 = 0 \/ y % 10 = 0)
    THEN (IF Luma(c) > 128 THEN RGB(50, 50, 50) ELSE RGB(255, 255, 255))
    ELSE c

\* lines 280-291; x, y are the 0-based column and row
Blink(c, x, y, opts) ==
    IF opts.blinkState /\ ((x + 1) % 10 = 0 \/ (y + 1) % 10 = 0)
    THEN (IF Luma(c) > 128 THEN RGB(50, 50, 50) ELSE RGB(255, 255, 255))
    ELSE c

\* lines 228-269 on a target that is NaN.  Every comparison with NaN is false:
\* noir and the nearest-colour match keep the first palette entry, no special
\* case styles the cell, and the gradient index is NaN, which selects no entry.
NaNFilter(opts) ==
    IF opts.filter = "noir"
    THEN Ok(IF Len(opts.palette) = 0 THEN NaNColour ELSE opts.palette[1])
    ELSE IF opts.filter = "rainbow" \/ opts.filter = "popart"
    THEN (IF Len(opts.palette) > 5 /\ opts.randomSeed > 0
          THEN Ok(opts.palette[1]) ELSE Threw)
    ELSE Ok(NaNColour)

\* lines 203-291 for a cell whose sampled colour is NaN; the jitter and the
\* brightness / saturation arithmetic leave NaN, the seed advances as usual
NaNCell(sd, x, y, opts) ==
    LET f == NaNFilter(opts)
        d == IF ~IsNaN(f.c) THEN Desaturate(f.c, opts)
             ELSE IF opts.isDesaturated THEN DESATURATE_PALETTE[1] ELSE NaNColour
        out == IF ~IsNaN(d) THEN Blink(d, x, y, opts)
               ELSE IF opts.blinkState /\ ((x + 1) % 10 = 0 \/ (y + 1) % 10 = 0)
               THEN RGB(255, 255, 255) ELSE NaNColour
    IN  [sample |-> NaNColour, target |-> NaNColour, filtered |-> f.c, desat |-> d,
         out |-> out, threw |-> f.threw, seed |-> Jitter(RGB(0, 0, 0), sd, opts).seed]

\* lines 203-291 for the cell at column x, row y whose sampled colour is c
CellColours(c, sd, x, y, opts) ==
    IF IsNaN(c) THEN NaNCell(sd, x, y, opts)
    ELSE
    LET j == Jitter(c, sd, opts)
        target == Adjust(j.t, opts)
        f == StyleFilter(target, opts)
        d == Desaturate(f.c, opts)
    IN  [sample |-> c, target |-> target, filtered |-> f.c, desat |-> d,
         out |-> Blink(d, x, y, opts), threw |-> f.threw, seed |-> j.seed]

---------------------------------------------------------------------------
(* Set-up of a call: working size and source rectangle (lines 98-137)      *)

MAX_WIDTH == 1200

\* lines 99-106: [workWidth, workHeight]
WorkSize(img) ==
    IF img.width > MAX_WIDTH
    THEN [workWidth |-> RI(MAX_WIDTH),
          workHeight |-> RMul(RI(img.height), RDiv(RI(MAX_WIDTH), RI(img.width)))]
    ELSE [workWidth |-> RI(img.width), workHeight |-> RI(img.height)]

\* options.zoom || 1.0
OrDefault(v, dflt) == IF v = Undefined \/ v.n = 0 THEN dflt ELSE v

\* lines 119-134 without the final clamp
SourceRectNoClamp(img, opts) ==
    LET zoom == OrDefault(opts.zoom, RI(1))
        sWidth == RDiv(RI(img.width), zoom)
        sHeight == RDiv(RI(img.height), zoom)
        roomX == RSub(RI(img.width), sWidth)
        roomY == RSub(RI(img.height), sHeight)
    IN  [sx |-> RAdd(RDiv(roomX, RI(2)), RMul(OrDefault(opts.offsetX, RI(0)), roomX)),
         sy |-> RAdd(RDiv(roomY, RI(2)), RMul(OrDefault(opts.offsetY, RI(0)), roomY)),
         sWidth |-> sWidth, sHeight |-> sHeight]

\* lines 119-134: the source rectangle for zoom and panning
SourceRect(img, opts) ==
    LET zoom == OrDefault(opts.zoom, RI(1))
        sWidth == RDiv(RI(img.width), zoom)
        sHeight == RDiv(RI(img.height), zoom)
        roomX == RSub(RI(img.width), sWidth)
        roomY == RSub(RI(img.height), sHeight)
        sx0 == RAdd(RDiv(roomX, RI(2)), RMul(OrDefault(opts.offsetX, RI(0)), roomX))
        sy0 == RAdd(RDiv(roomY, RI(2)), RMul(OrDefault(opts.offsetY, RI(0)), roomY))
    IN  [sx |-> RMax(RI(0), RMin(roomX, sx0)),
         sy |-> RMax(RI(0), RMin(roomY, sy0)),
         sWidth |-> sWidth, sHeight |-> sHeight]

\* The pixel of the source image at column u, row v.  "solid" is one colour,
\* "bands" repeats three colours along the diagonals.
SourcePixel(img, u, v) ==
    IF img.pat = "solid" THEN img.c
    ELSE LET k == (u + v) % 3
         IN  IF k = 0 THEN img.c ELSE IF k = 1 THEN RGB(200, 129, 100) ELSE RGB(0, 0, 255)

\* imgData at column X, row Y of the working surface after drawImage(image, sx, sy,
\* sWidth, sHeight, 0, 0, workWidth, workHeight).  The browser's resampling is
\* taken to be nearest-neighbour from the top-left of each working pixel.
ImgData(img, w, X, Y) ==
    LET u == RFloor(RAdd(w.src.sx, RDiv(RMul(RI(X), w.src.sWidth), w.workWidth)))
        v == RFloor(RAdd(w.src.sy, RDiv(RMul(RI(Y), w.src.sHeight), w.workHeight)))
    IN  SourcePixel(img, u, v)

\* Whether index = (Y * workWidth + X) * 4 lies in the data of
\* getImageData(0, 0, workWidth, workHeight): a fractional height is truncated,
\* and reading the array beyond its length yields undefined.
InData(w, X, Y) ==
    (Y * RFloor(w.workWidth) + X) * 4 < RFloor(w.workWidth) * RFloor(w.workHeight) * 4

---------------------------------------------------------------------------
(* Cell sampling (lines 176-200)                                           *)

\* the stride taken as half of the cell
StepHalf(cellSize) ==
    LET f == RFloor(RDiv(cellSize, RI(2))) IN IF f < 1 THEN 1 ELSE f

\* Math.max(1, Math.floor(cellSize / 4))
Step(cellSize) ==
    LET f == RFloor(RDiv(cellSize, RI(4))) IN IF f < 1 THEN 1 ELSE f

\* number of iterations of `for (c = 0; c < cellSize; c += step)`
PerAxis(cellSize) == RCeil(RDiv(cellSize, RI(Step(cellSize))))

\* let r = 0, g = 0, b = 0, count = 0; nan tells that the sums are NaN
NoSamp == [r |-> 0, g |-> 0, b |-> 0, count |-> 0, nan |-> FALSE]

\* r += ..., g += ..., b += ..., count++ of the samples of t on top of those of s
AddSamp(s, t) ==
    [r |-> s.r + t.r, g |-> s.g + t.g, b |-> s.b + t.b, count |-> s.count + t.count,
     nan |-> s.nan \/ t.nan]

\* what the sample point at offsets cx, cy adds: nothing when it fails the bounds
\* test, its pixel when the index lies in the data, NaN when it lies past them
SamplePoint(img, w, px, py, cy, cx) ==
    LET sampleX == RFloor(RAdd(px, RI(cx)))
        sampleY == RFloor(RAdd(py, RI(cy)))
        p == ImgData(img, w, sampleX, sampleY)
    IN  IF ~(RLt(RI(sampleX), w.workWidth) /\ RLt(RI(sampleY), w.workHeight)) THEN NoSamp
        ELSE IF InData(w, sampleX, sampleY)
        THEN [r |-> p.r, g |-> p.g, b |-> p.b, count |-> 1, nan |-> FALSE]
        ELSE [r |-> 0, g |-> 0, b |-> 0, count |-> 1, nan |-> TRUE]

\* the loop `for (cx = 0; cx < cellSize; cx += step)` at offset cy, from cx on:
\* the sums and the count it adds (the sums are of integers, so their order is
\* immaterial)
RECURSIVE SampleRow(_, _, _, _, _, _)
SampleRow(img, w, px, py, cy, cx) ==
    IF ~RLt(RI(cx), w.cellSize) THEN NoSamp
    ELSE AddSamp(SamplePoint(img, w, px, py, cy, cx),
                 SampleRow(img, w, px, py, cy, cx + Step(w.cellSize)))

\* the loop `for (cy = 0; cy < cellSize; cy += step)` from cy on
RECURSIVE SampleLoop(_, _, _, _, _)
SampleLoop(img, w, px, py, cy) ==
    IF ~RLt(RI(cy), w.cellSize) THEN NoSamp
    ELSE AddSamp(SampleRow(img, w, px, py, cy, 0),
                 SampleLoop(img, w, px, py, cy + Step(w.cellSize)))

\* lines 179-194: the sums and the count of the cell at column x, row y
SampleSums(img, w, x, y) ==
    SampleLoop(img, w, RMul(RI(x), w.cellSize), RMul(RI(y), w.cellSize), 0)

\* lines 196-200: the sampled colour from the sums s
Mean(s) ==
    IF s.count = 0 THEN RGB(0, 0, 0)
    ELSE IF s.nan THEN NaNColour
    ELSE RGB(RRound(RDiv(RI(s.r), RI(s.count))), RRound(RDiv(RI(s.g), RI(s.count))),
             RRound(RDiv(RI(s.b), RI(s.count))))

\* lines 179-200: the sampled colour of the cell at column x, row y
SampleCell(img, w, x, y) ==
    Mean(SampleSums(img, w, x, y))

---------------------------------------------------------------------------
(* Shape geometry (lines 45-75, 145-158, 294-311)                          *)

Sq(a) == RMul(a, a)

\* number of straight pieces each Bezier segment of the heart is flattened into
HeartSteps == 4

\* x and y, as fractions of width and height, of the top-left segment of
\* getHeartPath at parameter k / HeartSteps: control points (1/2, 3/10), (1/2, 0),
\* (0, 0), (0, 3/10)
HeartTop(k) ==
    LET N == HeartSteps
    IN  [x |-> Dec((N - k) * (N - k) * (N + 2 * k), 2 * N * N * N),
         y |-> Dec(3 * (N * N - 3 * k * N + 3 * k * k), 10 * N * N)]

\* the bottom-left segment: control points (0, 3/10), (0, 6/10), (1/2, 9/10), (1/2, 1)
HeartBottom(k) ==
    LET N == HeartSteps
        m == N - k
    IN  [x |-> Dec(k * k * (3 * N - 2 * k), 2 * N * N * N),
         y |-> Dec(3 * m * m * m + 18 * m * m * k + 27 * m * k * k + 10 * k * k * k,
                   10 * N * N * N)]

\* the height of the chord from a to b above abscissa u
ChordAt(a, b, u) ==
    IF a.x = b.x THEN a.y
    ELSE RAdd(a.y, RDiv(RMul(RSub(b.y, a.y), RSub(u, a.x)), RSub(b.x, a.x)))

\* Containment in the path of getHeartPath(0, 0, width, height) of the point at
\* fractions u, v of width and height.  The path is symmetric about u = 1/2; its
\* left half lies between the top-left and the bottom-left segment.
InHeart(u, v) ==
    LET N == HeartSteps
        h == RMin(u, RSub(RI(1), u))
        kt == CHOOSE k \in 0..(N - 1) : RLe(HeartTop(k + 1).x, h) /\ RLe(h, HeartTop(k).x)
        kb == CHOOSE k \in 0..(N - 1) :
                  RLe(HeartBottom(k).x, h) /\ RLe(h, HeartBottom(k + 1).x)
    IN  /\ RLe(RI(0), h)
        /\ RLe(ChordAt(HeartTop(kt + 1), HeartTop(kt), h), v)
        /\ RLe(v, ChordAt(HeartBottom(kb), HeartBottom(kb + 1), h))

\* ctx.isPointInPath(shapePath, x, y) for the shapePath of lines 145-158; points
\* on the outline count as inside
InPath(shape, w, x, y) ==
    LET minDim == RMin(w.workWidth, w.workHeight)
        half == RDiv(minDim, RI(2))
        left == RDiv(RSub(w.workWidth, minDim), RI(2))
        top == RDiv(RSub(w.workHeight, minDim), RI(2))
    IN  IF shape = "circle"
        THEN RLe(RAdd(Sq(RSub(x, RDiv(w.workWidth, RI(2)))),
                      Sq(RSub(y, RDiv(w.workHeight, RI(2))))), Sq(half))
        ELSE IF shape = "heart"
        THEN InHeart(RDiv(x, w.workWidth), RDiv(y, w.workHeight))
        ELSE /\ RLe(left, x) /\ RLe(x, RAdd(left, minDim))
             /\ RLe(top, y) /\ RLe(y, RAdd(top, minDim))

\* lines 294-311 with the test of the first corner only
IsInsideFirstCorner(shape, w, x, y) ==
    LET padding == RMul(w.cellSize, Dec(1, 10))
    IN  shape = "rectangle"
        \/ InPath(shape, w, RAdd(RMul(RI(x), w.cellSize), padding),
                  RAdd(RMul(RI(y), w.cellSize), padding))

\* lines 294-311: isInside for the cell at column x, row y
IsInside(shape, w, x, y) ==
    LET padding == RMul(w.cellSize, Dec(1, 10))
        drawSize == RSub(w.cellSize, RMul(padding, RI(2)))
        drawX == RAdd(RMul(RI(x), w.cellSize), padding)
        drawY == RAdd(RMul(RI(y), w.cellSize), padding)
    IN  IF shape = "rectangle" THEN TRUE
        ELSE /\ InPath(shape, w, drawX, drawY)
             /\ InPath(shape, w, RAdd(drawX, drawSize), drawY)
             /\ InPath(shape, w, drawX, RAdd(drawY, drawSize))
             /\ InPath(shape, w, RAdd(drawX, drawSize), RAdd(drawY, drawSize))

---------------------------------------------------------------------------
(* The palettes of the application (part_000 lines 28-98, 110-113)         *)

BW_PALETTE == << RGB(0, 0, 0), RGB(255, 255, 255) >>

RAINBOW_PALETTE ==
    << RGB(148, 0, 211), RGB(75, 0, 130), RGB(0, 0, 255), RGB(0, 255, 0),
       RGB(255, 255, 0), RGB(255, 127, 0), RGB(255, 0, 0), RGB(0, 0, 0),
       RGB(255, 255, 255) >>

RGB_PALETTE ==
    << RGB(255, 0, 0), RGB(0, 255, 0), RGB(0, 0, 255), RGB(0, 0, 0),
       RGB(255, 255, 255) >>

YCM_PALETTE ==
    << RGB(255, 255, 0), RGB(0, 255, 255), RGB(255, 0, 255), RGB(0, 0, 0),
       RGB(255, 255, 255) >>

REGIA_PALETTE ==
    << RGB(210, 43, 43), RGB(255, 140, 0), RGB(224, 17, 95), RGB(204, 170, 34),
       RGB(0, 71, 171), RGB(0, 128, 0), RGB(128, 0, 128), RGB(0, 0, 0),
       RGB(255, 255, 255) >>

SUNSET_PALETTE ==
    << RGB(45, 3, 59), RGB(140, 0, 0), RGB(214, 90, 49), RGB(255, 215, 0),
       RGB(62, 84, 172), RGB(245, 232, 199), RGB(255, 46, 99) >>

ELECTRIC_PALETTE ==
    << RGB(0, 0, 0), RGB(78, 49, 170), RGB(58, 16, 120), RGB(0, 215, 255),
       RGB(247, 208, 96), RGB(255, 0, 96), RGB(17, 106, 123) >>

RETRO_PALETTE ==
    << RGB(26, 18, 11), RGB(60, 42, 33), RGB(188, 108, 37), RGB(254, 250, 224),
       RGB(96, 108, 56), RGB(40, 54, 24), RGB(221, 161, 94) >>

---------------------------------------------------------------------------
(* Values of the state at rest                                             *)

DefaultOptions ==
    [gridSize |-> 1, shape |-> "rectangle", filter |-> "none", palette |-> <<>>,
     randomSeed |-> 0, zoom |-> RI(1), offsetX |-> RI(0), offsetY |-> RI(0),
     isDesaturated |-> FALSE, saturation |-> Undefined, brightness |-> Undefined,
     blinkState |-> FALSE]

NoCell ==
    [sample |-> RGB(0, 0, 0), target |-> RGB(0, 0, 0), filtered |-> RGB(0, 0, 0),
     desat |-> RGB(0, 0, 0), out |-> RGB(0, 0, 0), threw |-> FALSE, seed |-> 0]

NoImage == [width |-> 1, height |-> 1, pat |-> "solid", c |-> RGB(0, 0, 0)]

NoRect == [sx |-> RI(0), sy |-> RI(0), sWidth |-> RI(0), sHeight |-> RI(0)]

NoWork ==
    [workWidth |-> RI(0), workHeight |-> RI(0), cellSize |-> RI(0), rows |-> 0,
     src |-> NoRect]

\* a canvas element as created: 300 x 150, transparent
DefaultCanvas ==
    [ctx |-> TRUE, width |-> 300, height |-> 150, bg |-> "transparent", cells |-> <<>>]

\* the state of App as created by its useState calls (part_000 lines 101-121);
\* image tells whether an image is loaded, interval whether the blink interval
\* is set, version counts the renders that changed a dependency of the
\* re-process effect (history)
InitialApp ==
    [image |-> FALSE, gridSize |-> 50, filter |-> "none", isProcessing |-> FALSE,
     isBlinking |-> FALSE, blinkState |-> FALSE, interval |-> FALSE,
     noirPalette |-> BW_PALETTE, popArtScheme |-> 0, popPalette |-> RAINBOW_PALETTE,
     version |-> 0]

appVars == <<app, timers, calls>>

\* the application is not running
AppAtRest == samp = NoSamp /\ app = InitialApp /\ timers = <<>> /\ calls = <<>>

---------------------------------------------------------------------------
(* SpecQuantizer: getClosestColor on bounded colours and palettes          *)

MaxPaletteLen == 3

QChannels == {0, 127, 255}

QColours == {RGB(r, g, b) : r \in QChannels, g \in QChannels, b \in QChannels}

QPaletteColours == {RGB(0, 0, 0), RGB(254, 0, 0), RGB(0, 254, 0), RGB(255, 255, 255)}

QPalettes == UNION {[1..n -> QPaletteColours] : n \in 0..MaxPaletteLen}

InitQuantizer ==
    /\ options \in {[DefaultOptions EXCEPT !.palette = p] : p \in QPalettes}
    /\ cell \in {[NoCell EXCEPT !.sample = c] : c \in QColours}
    /\ pc = "idle"
    /\ image = NoImage /\ canvas = DefaultCanvas /\ offCtx = TRUE /\ work = NoWork
    /\ seed = 0 /\ pos = 0 /\ runs = 0 /\ prevOut = <<>> /\ AppAtRest

\* one call getClosestColor(r, g, b, palette)
GetClosest ==
    /\ pc = "idle"
    /\ cell' = [cell EXCEPT !.out = getClosestColor(cell.sample, options.palette)]
    /\ pc' = "matched"
    /\ UNCHANGED <<image, options, canvas, offCtx, work, seed, pos, runs, prevOut, samp, appVars>>

SpecQuantizer == InitQuantizer /\ [][GetClosest]_vars

---------------------------------------------------------------------------
(* SpecColour: the colour chain of one cell on bounded colours and options *)

Channels == {0, 100, 129, 200, 255}

Samples == {RGB(r, g, b) : r \in Channels, g \in Channels, b \in Channels}

Filters == {"none", "noir", "rainbow", "popart"}

ColourPalettes == {<<>>, BW_PALETTE, RGB_PALETTE, RAINBOW_PALETTE}

\* pairs <<brightness, saturation>>
Multipliers ==
    { <<Undefined, Undefined>>, <<RI(1), RI(1)>>, <<Dec(1, 2), RI(1)>>,
      <<RI(1), RI(0)>>, <<RI(2), RI(3)>>, <<Dec(13, 10), Dec(17, 10)>> }

MaxSeed == 2

ColourOptions ==
    { [DefaultOptions EXCEPT !.filter = f, !.palette = p, !.isDesaturated = d,
                             !.randomSeed = s, !.brightness = m[1],
                             !.saturation = m[2], !.blinkState = bl] :
        f \in Filters, p \in ColourPalettes, d \in BOOLEAN, s \in 0..MaxSeed,
        m \in Multipliers, bl \in BOOLEAN }

InitColour ==
    /\ options \in ColourOptions
    /\ cell \in {[NoCell EXCEPT !.sample = c] : c \in Samples}
    /\ pos \in (IF options.blinkState THEN {0, 9} ELSE {0})
    /\ seed = options.randomSeed
    /\ pc = "sampled"
    /\ image = NoImage /\ canvas = DefaultCanvas /\ offCtx = TRUE /\ work = NoWork
    /\ runs = 0 /\ prevOut = <<>> /\ AppAtRest

\* lines 203-291 on the sampled colour of the cell at column pos, row 0
ColourCell ==
    /\ pc = "sampled"
    /\ cell' = CellColours(cell.sample, seed, pos, 0, options)
    /\ seed' = cell'.seed
    /\ pc' = IF cell'.threw THEN "threw" ELSE "coloured"
    /\ UNCHANGED <<image, options, canvas, offCtx, work, pos, runs, prevOut, samp, appVars>>

SpecColour == InitColour /\ [][ColourCell]_vars

---------------------------------------------------------------------------
(* SpecRect: the source rectangle on bounded sizes, zooms and pans         *)

RectSizes == {1, 100, 200, 1300}

RectZooms == {RI(1), Dec(11, 10), RI(2), Dec(25, 10), RI(3)}

RectOffsets == {RI(-1), Dec(-1, 2), Dec(-1, 10), RI(0), Dec(3, 10), Dec(1, 2), RI(2)}

InitRect ==
    /\ image \in {[NoImage EXCEPT !.width = w, !.height = h] :
                     w \in RectSizes, h \in RectSizes}
    /\ options \in {[DefaultOptions EXCEPT !.zoom = z, !.offsetX = ox, !.offsetY = oy] :
                       z \in RectZooms, ox \in RectOffsets, oy \in RectOffsets}
    /\ pc = "idle"
    /\ canvas = DefaultCanvas /\ offCtx = TRUE /\ work = NoWork /\ cell = NoCell
    /\ seed = 0 /\ pos = 0 /\ runs = 0 /\ prevOut = <<>> /\ AppAtRest

\* lines 119-134
ComputeRect ==
    /\ pc = "idle"
    /\ work' = [work EXCEPT !.src = SourceRect(image, options)]
    /\ pc' = "rect"
    /\ UNCHANGED <<image, options, canvas, offCtx, seed, pos, cell, runs, prevOut, samp, appVars>>

SpecRect == InitRect /\ [][ComputeRect]_vars

---------------------------------------------------------------------------
(* Spec: calls of processImage                                             *)

MaxRuns == 2

MaxGrid == 3

\* content left on the target canvas by an earlier use
PriorCanvas ==
    [ctx |-> TRUE, width |-> 64, height |-> 48, bg |-> "slate",
     cells |-> << [out |-> RGB(1, 2, 3), drawn |-> TRUE] >>]

Canvases == {DefaultCanvas, [PriorCanvas EXCEPT !.ctx = FALSE]}

\* Source images.  Every one has an integral working height.
Images ==
    { [width |-> 100, height |-> 100, pat |-> "solid", c |-> RGB(255, 0, 0)],
      [width |-> 6, height |-> 4, pat |-> "bands", c |-> RGB(129, 129, 100)],
      [width |-> 2400, height |-> 1200, pat |-> "bands", c |-> RGB(255, 255, 255)] }

BigImage == [width |-> 100, height |-> 100, pat |-> "bands", c |-> RGB(200, 200, 200)]

\* options of calls on small grids
SmallOptions ==
    { [DefaultOptions EXCEPT !.gridSize = n, !.shape = sh, !.filter = f,
                             !.palette = p, !.randomSeed = s, !.isDesaturated = d,
                             !.zoom = z[1], !.offsetX = z[2]] :
        n \in 1..MaxGrid, sh \in {"square", "rectangle", "circle", "heart"},
        f \in Filters, p \in {<<>>, RAINBOW_PALETTE}, s \in {0, MaxSeed},
        d \in BOOLEAN, z \in {<<RI(1), RI(0)>>, <<RI(2), Dec(3, 10)>>} }

\* options of calls on a grid of ten columns
BigOptions ==
    { [DefaultOptions EXCEPT !.gridSize = 10, !.shape = sh, !.filter = f,
                             !.palette = RAINBOW_PALETTE, !.randomSeed = s,
                             !.blinkState = bl] :
        sh \in {"square", "rectangle", "circle", "heart"}, f \in {"none", "popart"},
        s \in {0, MaxSeed}, bl \in BOOLEAN }

\* Source images whose working surface has a fractional height (1200 x 600.5)
\* or cells of a fractional size (15 / 2)
OddImages ==
    { [width |-> 2400, height |-> 1201, pat |-> "bands", c |-> RGB(255, 255, 255)],
      [width |-> 15, height |-> 7, pat |-> "bands", c |-> RGB(129, 129, 100)] }

\* options of calls on those images
OddOptions ==
    { [DefaultOptions EXCEPT !.gridSize = n, !.filter = f, !.palette = p,
                             !.randomSeed = s, !.isDesaturated = d] :
        n \in 1..MaxGrid, f \in Filters, p \in {RGB_PALETTE, RAINBOW_PALETTE},
        s \in {0, MaxSeed}, d \in BOOLEAN }

\* the arguments of the calls and the environment; the last case is a canvas in
\* use, with a context and an earlier render, where no offscreen context is to be had
Init ==
    /\ \/ /\ \/ image \in Images /\ options \in SmallOptions
             \/ image = BigImage /\ options \in BigOptions
             \/ image \in OddImages /\ options \in OddOptions
          /\ canvas \in Canvases
          /\ offCtx \in BOOLEAN
       \/ /\ image \in Images /\ options = DefaultOptions
          /\ canvas = PriorCanvas
          /\ offCtx = FALSE
    /\ pc = "idle"
    /\ work = NoWork /\ cell = NoCell
    /\ seed = 0 /\ pos = 0 /\ runs = 0 /\ prevOut = <<>> /\ AppAtRest

\* canvas.width = workWidth; canvas.height = workHeight (lines 108-109): the
\* bitmap is reset to transparent, a fractional height is truncated
Resized(cv, size) ==
    [cv EXCEPT !.width = RFloor(size.workWidth), !.height = RFloor(size.workHeight),
               !.bg = "transparent", !.cells = <<>>]

\* line 96: `if (!ctx) return;`, taken after the canvas has been resized
NoContextResized ==
    /\ pc' = "returned"
    /\ canvas' = Resized(canvas, WorkSize(image))
    /\ UNCHANGED <<work, seed, pos, cell>>

\* line 96: `if (!ctx) return;`
NoContext ==
    /\ pc' = "returned"
    /\ UNCHANGED <<canvas, work, seed, pos, cell>>

\* line 116: `if (!offCtx) return;`
NoOffscreen ==
    /\ pc' = "returned"
    /\ canvas' = Resized(canvas, WorkSize(image))
    /\ UNCHANGED <<work, seed, pos, cell>>

\* line 172 with the seed kept from the previous call
InitialSeedStale == seed

\* line 172: let seed = options.randomSeed
InitialSeed == options.randomSeed

\* the number of rows taken as one more than the whole rows
RowsFloorPlusOne(workHeight, cellSize) == RFloor(RDiv(workHeight, cellSize)) + 1

\* line 165: Math.ceil(workHeight / cellSize)
Rows(workHeight, cellSize) == RCeil(RDiv(workHeight, cellSize))

\* the fill style before any cell is drawn: '#1e293b' (line 161)
Slate == RGB(30, 41, 59)

\* ctx.fillStyle after `ctx.fillStyle = rgb(r, g, b)` (line 293): a string with
\* NaN channels is no colour and the assignment is ignored
FillStyle(cells, c) ==
    IF ~IsNaN(c) THEN c
    ELSE IF cells = <<>> THEN Slate ELSE cells[Len(cells)].out

\* lines 98-172: sizes, source rectangle, background, grid, seed
Setup ==
    LET size == WorkSize(image)
        cellSize == RDiv(size.workWidth, RI(options.gridSize))
    IN  /\ canvas' = [Resized(canvas, size) EXCEPT !.bg = "slate"]
        /\ work' = [workWidth |-> size.workWidth, workHeight |-> size.workHeight,
                    cellSize |-> cellSize,
                    rows |-> Rows(size.workHeight, cellSize),
                    src |-> SourceRect(image, options)]
        /\ seed' = InitialSeed
        /\ pos' = 0
        /\ pc' = "scan"
        /\ UNCHANGED cell

\* a call processImage(image, canvas, options), up to the start of the scan
Call ==
    /\ pc \in {"idle", "done", "returned", "threw"}
    /\ runs < MaxRuns
    /\ runs' = runs + 1
    /\ prevOut' = canvas.cells
    /\ IF ~canvas.ctx THEN NoContext
       ELSE IF ~offCtx THEN NoOffscreen
       ELSE Setup
    /\ UNCHANGED <<image, options, offCtx, samp, appVars>>

\* the running seed kept in options.randomSeed instead of the local
AdvanceSeedInOptions(c) ==
    /\ seed' = c.seed
    /\ options' = [options EXCEPT !.randomSeed = IF @ > 0 THEN c.seed ELSE @]

\* the three seed++ of lines 205-207
AdvanceSeed(c) ==
    /\ seed' = c.seed
    /\ UNCHANGED options

\* one iteration of the inner loop (lines 175-328), for the cell pos
CellStep ==
    /\ pc = "scan"
    /\ pos < work.rows * options.gridSize
    /\ LET x == pos % options.gridSize
           y == pos \div options.gridSize
       IN  \E s \in {SampleSums(image, work, x, y)} :
           \E c \in {CellColours(Mean(s), seed, x, y, options)} :
           /\ samp' = s
           /\ cell' = c
           /\ AdvanceSeed(c)
           /\ IF c.threw
              THEN pc' = "threw" /\ UNCHANGED <<canvas, pos>>
              ELSE /\ canvas' = [canvas EXCEPT !.cells =
                          Append(@, [out |-> FillStyle(@, c.out),
                                     drawn |-> IsInside(options.shape, work, x, y)])]
                   /\ pos' = pos + 1
                   /\ pc' = "scan"
    /\ UNCHANGED <<image, offCtx, work, runs, prevOut, appVars>>

\* the end of the scan: ctx.restore() and return (line 330)
Return ==
    /\ pc = "scan"
    /\ pos = work.rows * options.gridSize
    /\ pc' = "done"
    /\ UNCHANGED <<image, options, canvas, offCtx, work, seed, pos, cell, runs, prevOut, samp, appVars>>

Next == Call \/ CellStep \/ Return

Spec == Init /\ [][Next]_vars

---------------------------------------------------------------------------
(* SpecApp: the application around processImage (part_000)                 *)
(*                                                                         *)
(* Each action is one event handler or timer callback together with the    *)
(* render and the effects that follow it.  Of the configuration, the grid  *)
(* size, the filter, the palettes, the pop-art scheme and the blink state  *)
(* are modelled; shape, brightness, saturation, zoom, pan, seed and the    *)
(* desaturation switch are set the way gridSize is and keep their initial  *)
(* values.  A call of processImage is one step, recorded by its options:   *)
(* the function is synchronous and what it draws is the subject of Spec.   *)

\* the number of renders that change a dependency of the re-process effect
MaxChanges == 3

engineVars == <<image, canvas, offCtx, pc, work, seed, pos, cell, prevOut, samp>>

\* the value of <input type="color">, "#rrggbb", as its six hexadecimal digits
PickerHexes == {<<15, 15, 15, 15, 15, 15>>, <<1, 14, 2, 9, 3, 11>>}

\* lines 16-23: the three pairs of digits, or black when the text is no colour
hexToRgb(hex) ==
    IF Len(hex) = 6 /\ \A i \in 1..6 : hex[i] \in 0..15
    THEN RGB(16 * hex[1] + hex[2], 16 * hex[3] + hex[4], 16 * hex[5] + hex[6])
    ELSE RGB(0, 0, 0)

\* the positions of the Grid Density slider that are modelled (lines 293-299)
GridSizes == {10, 50}

\* the variables of a render that the timer callback of lines 130-163 closes over
Captured(a) ==
    [gridSize |-> a.gridSize, filter |-> a.filter, noirPalette |-> a.noirPalette,
     popPalette |-> a.popPalette, popArtScheme |-> a.popArtScheme,
     blinkState |-> a.blinkState]

\* lines 134-146: activePalette
ActivePalette(c) ==
    IF c.filter = "noir" THEN c.noirPalette
    ELSE IF c.filter = "popart"
    THEN (IF c.popArtScheme = 0 THEN c.popPalette
          ELSE IF c.popArtScheme = 1 THEN RGB_PALETTE
          ELSE IF c.popArtScheme = 2 THEN YCM_PALETTE
          ELSE IF c.popArtScheme = 3 THEN REGIA_PALETTE
          ELSE IF c.popArtScheme = 4 THEN SUNSET_PALETTE
          ELSE IF c.popArtScheme = 5 THEN ELECTRIC_PALETTE
          ELSE IF c.popArtScheme = 6 THEN RETRO_PALETTE
          ELSE <<>>)
    ELSE IF c.filter = "rainbow" THEN RAINBOW_PALETTE
    ELSE <<>>

\* lines 148-161: the options passed to processImage
ActiveOptions(c) ==
    [DefaultOptions EXCEPT !.gridSize = c.gridSize, !.shape = "circle",
                           !.filter = c.filter, !.palette = ActivePalette(c),
                           !.brightness = RI(1), !.saturation = RI(1),
                           !.blinkState = c.blinkState]

\* a pop palette of 29 entries, as left by twenty additions
Palette29 == [i \in 1..29 |-> IF i <= 9 THEN RAINBOW_PALETTE[i] ELSE RGB(i, i, i)]

\* States of the application before an image is loaded: the initial one and
\* those left by filter clicks and palette edits.
AppStarts ==
    { [InitialApp EXCEPT !.filter = f, !.popArtScheme = k, !.popPalette = p] :
        f \in Filters, k \in {0, 6},
        p \in {RAINBOW_PALETTE, SubSeq(RAINBOW_PALETTE, 1, 2), Palette29} }

InitApp ==
    /\ app \in AppStarts
    /\ timers = <<>> /\ calls = <<>>
    /\ options = DefaultOptions
    /\ image = NoImage /\ canvas = DefaultCanvas /\ offCtx = TRUE /\ pc = "idle"
    /\ work = NoWork /\ cell = NoCell /\ samp = NoSamp
    /\ seed = 0 /\ pos = 0 /\ runs = 0 /\ prevOut = <<>>

\* A render with the state a, in which a dependency of the effect of lines 127-165
\* has changed: the effect runs and, an image being loaded, sets isProcessing and
\* a timer of 50 ms.  The effect returns no cleanup: timers set by earlier
\* renders stay pending.
Commit(a) ==
    /\ app.version < MaxChanges
    /\ app' = [a EXCEPT !.version = @ + 1, !.isProcessing = a.image \/ @]
    /\ timers' = IF a.image
                 THEN Append(timers, [version |-> a.version + 1, cfg |-> Captured(a)])
                 ELSE timers
    /\ UNCHANGED <<calls, options, runs, engineVars>>

\* a handler that sets no state, or sets a state to the value it has
NoRender == UNCHANGED vars

\* lines 182-194: handleFileUpload, the file holding an image
LoadImage == Commit([app EXCEPT !.image = TRUE])

\* line 298: the Grid Density slider moved to n
SetGridSize(n) ==
    IF n # app.gridSize THEN Commit([app EXCEPT !.gridSize = n]) ELSE NoRender

\* lines 366-367: the Standard and the Noir button
ClickFilter(f) ==
    IF f # app.filter THEN Commit([app EXCEPT !.filter = f]) ELSE NoRender

\* lines 368-376: the Pop Art button
ClickPopArt ==
    IF app.filter = "popart"
    THEN Commit([app EXCEPT !.popArtScheme = (@ + 1) % 7])
    ELSE Commit([app EXCEPT !.filter = "popart"])

\* lines 377-382: the Rainbow button
ClickRainbow ==
    Commit([app EXCEPT !.filter = IF @ = "rainbow" THEN "none" ELSE "rainbow"])

\* the swatches of the pop palette are rendered (lines 410, 421-423)
PopPaletteShown == app.filter = "popart" /\ app.popArtScheme = 0

\* lines 204-210, from the add swatch of lines 450-458
addPopColor(hex) ==
    /\ PopPaletteShown
    /\ Len(app.popPalette) < 30
    /\ IF Len(app.popPalette) >= 30 THEN NoRender
       ELSE IF \E i \in 1..Len(app.popPalette) : app.popPalette[i] = hexToRgb(hex)
       THEN NoRender
       ELSE Commit([app EXCEPT !.popPalette = Append(@, hexToRgb(hex))])

\* lines 212-215 without the early return
removePopColorNoFloor(index) ==
    /\ PopPaletteShown
    /\ index \in 0..(Len(app.popPalette) - 1)
    /\ Commit([app EXCEPT !.popPalette =
                  SubSeq(@, 1, index) \o SubSeq(@, index + 2, Len(@))])

\* lines 212-215, from the swatch at index (lines 441-448)
removePopColor(index) ==
    /\ PopPaletteShown
    /\ index \in 0..(Len(app.popPalette) - 1)
    /\ IF Len(app.popPalette) <= 1 THEN NoRender
       ELSE Commit([app EXCEPT !.popPalette =
                       SubSeq(@, 1, index) \o SubSeq(@, index + 2, Len(@))])

\* lines 217-221, from the swatch at index (lines 424-438)
updateNoirColor(index, hex) ==
    /\ app.filter = "noir"
    /\ index \in 0..(Len(app.noirPalette) - 1)
    /\ Commit([app EXCEPT !.noirPalette[index + 1] = hexToRgb(hex)])

\* lines 401-406 and the effect of lines 168-180: the blink button
ToggleBlinking ==
    IF ~app.isBlinking
    THEN /\ app' = [app EXCEPT !.isBlinking = TRUE, !.interval = TRUE]
         /\ UNCHANGED <<timers, calls, options, runs, engineVars>>
    ELSE IF app.blinkState
    THEN Commit([app EXCEPT !.isBlinking = FALSE, !.interval = FALSE,
                            !.blinkState = FALSE])
    ELSE /\ app' = [app EXCEPT !.isBlinking = FALSE, !.interval = FALSE]
         /\ UNCHANGED <<timers, calls, options, runs, engineVars>>

\* lines 171-173: the interval of 500 ms fires
BlinkTick ==
    /\ app.interval
    /\ Commit([app EXCEPT !.blinkState = ~@])

\* the callback of the timer set last runs before those set earlier
FireTimerNewestFirst ==
    /\ timers # <<>>
    /\ LET t == timers[Len(timers)]
       IN  /\ options' = ActiveOptions(t.cfg)
           /\ calls' = Append(calls, [version |-> t.version, options |-> ActiveOptions(t.cfg)])
    /\ timers' = SubSeq(timers, 1, Len(timers) - 1)
    /\ runs' = runs + 1
    /\ app' = [app EXCEPT !.isProcessing = FALSE]
    /\ UNCHANGED engineVars

\* lines 130-163: the callback of the oldest pending timer (all have the same
\* delay) calls processImage with the variables of the render that set it
FireTimer ==
    /\ timers # <<>>
    /\ LET t == Head(timers)
       IN  /\ options' = ActiveOptions(t.cfg)
           /\ calls' = Append(calls, [version |-> t.version, options |-> ActiveOptions(t.cfg)])
    /\ timers' = Tail(timers)
    /\ runs' = runs + 1
    /\ app' = [app EXCEPT !.isProcessing = FALSE]
    /\ UNCHANGED engineVars

NextApp ==
    \/ LoadImage
    \/ \E n \in GridSizes : SetGridSize(n)
    \/ \E f \in {"none", "noir"} : ClickFilter(f)
    \/ ClickPopArt
    \/ ClickRainbow
    \/ \E hex \in PickerHexes : addPopColor(hex)
    \/ \E index \in 0..1 : removePopColor(index)
    \/ \E index \in 0..1 : \E hex \in PickerHexes : updateNoirColor(index, hex)
    \/ ToggleBlinking
    \/ BlinkTick
    \/ FireTimer

SpecApp == InitApp /\ [][NextApp]_vars

---------------------------------------------------------------------------
(* Claims on the quantizer (SpecQuantizer)                                 *)

\* the indices of palette at minimal squared distance from colour c
Nearest(c, palette) ==
    {i \in 1..Len(palette) :
        \A j \in 1..Len(palette) : Dist2(c, palette[i]) <= Dist2(c, palette[j])}

\* C1: getClosestColor(C, P) is an element of P when P is not empty, and is C
\* itself when P is empty.
C1_ResultInPalette ==
    pc = "matched" =>
        IF Len(options.palette) = 0 THEN cell.out = cell.sample
        ELSE \E i \in 1..Len(options.palette) : cell.out = options.palette[i]

C1_Witness ==
    /\ pc = "matched"
    /\ Len(options.palette) = 3
    /\ cell.out = options.palette[3]
    /\ cell.out \notin {options.palette[1], options.palette[2], cell.sample}

\* C2: for a non-empty palette the result is the entry at the lowest index among
\* those at minimal squared distance from the colour.
C2_FirstNearest ==
    (pc = "matched" /\ Len(options.palette) > 0) =>
        LET first == CHOOSE i \in Nearest(cell.sample, options.palette) :
                         \A j \in Nearest(cell.sample, options.palette) : i <= j
        IN  cell.out = options.palette[first]

\* a tie between two different entries, resolved for the earlier one
C2_Witness ==
    /\ pc = "matched"
    /\ \E i, j \in Nearest(cell.sample, options.palette) :
          /\ i < j
          /\ options.palette[i] # options.palette[j]
          /\ cell.out = options.palette[i]

---------------------------------------------------------------------------
(* Claims on the colour chain (SpecColour)                                 *)

Black == RGB(0, 0, 0)

White == RGB(255, 255, 255)

IsOne(v) == v = Undefined \/ v = RI(1)

\* C4: with saturation 1 and brightness 1 (or both absent) and randomSeed 0 the
\* colour transform returns the sampled colour, and filter none passes it on.
C4_TransformIdentity ==
    (pc = "coloured" /\ options.randomSeed = 0
        /\ IsOne(options.brightness) /\ IsOne(options.saturation)) =>
        /\ cell.target = cell.sample
        /\ (options.filter = "none" => cell.filtered = cell.sample)

C4_Witness ==
    /\ pc = "coloured"
    /\ options.randomSeed = 0 /\ options.brightness = RI(1) /\ options.saturation = RI(1)
    /\ options.filter = "none"
    /\ cell.sample = RGB(255, 0, 0)
    /\ cell.filtered = RGB(255, 0, 0)

SevenColours ==
    { RGB(255, 0, 0), RGB(255, 255, 0), RGB(0, 255, 0), RGB(0, 0, 255),
      RGB(255, 0, 255), RGB(0, 0, 0), RGB(255, 255, 255) }

\* C5: with isDesaturated set, the colour the desaturation pass produces is one
\* of the seven fixed colours, whichever filter ran before it.
C5_DesaturatedInSeven ==
    (pc = "coloured" /\ options.isDesaturated) => cell.desat \in SevenColours

\* a filter output outside the seven colours is mapped into them
C5_Witness ==
    /\ pc = "coloured" /\ options.isDesaturated
    /\ options.filter = "popart"
    /\ cell.filtered \notin SevenColours
    /\ cell.desat \in SevenColours

\* round(0.299 R + 0.587 G + 0.114 B), in integers
Luma1000(c) == (299 * c.r + 587 * c.g + 114 * c.b + 500) \div 1000

\* C6: with filter noir and palette [black, white] the filter output is black or
\* white: luma above 128 is pushed up by 50 (at most 255), other luma down by 50
\* (at least 0), and the grey is mapped to the nearer of the two; red gives black.
C6_NoirBlackOrWhite ==
    (pc = "coloured" /\ options.filter = "noir" /\ options.palette = BW_PALETTE) =>
        LET luma == Luma1000(cell.target)
            pushed == IF luma > 128 THEN (IF luma + 50 > 255 THEN 255 ELSE luma + 50)
                      ELSE (IF luma - 50 < 0 THEN 0 ELSE luma - 50)
        IN  /\ cell.filtered \in {Black, White}
            /\ cell.filtered = (IF 3 * pushed * pushed < 3 * (255 - pushed) * (255 - pushed)
                                THEN Black ELSE White)
            /\ (cell.target = RGB(255, 0, 0) => (pushed = 26 /\ cell.filtered = Black))

C6_Witness ==
    /\ pc = "coloured" /\ options.filter = "noir" /\ options.palette = BW_PALETTE
    /\ cell.sample = RGB(255, 0, 0) /\ cell.target = RGB(255, 0, 0)
    /\ cell.filtered = Black

---------------------------------------------------------------------------
(* Claims on the source rectangle (SpecRect)                               *)

\* v limited to the interval from lo to hi
Clamped(v, lo, hi) == IF RLt(v, lo) THEN lo ELSE IF RLt(hi, v) THEN hi ELSE v

\* C9: for zoom >= 1 and any pan the source rectangle has size W/zoom x H/zoom and
\* lies inside the source; it is the centred rectangle shifted by
\* offset * (W - W/zoom), then limited to the source.  Zoom 2 with pan (0, 0) on a
\* 200 x 200 source gives the rectangle at (50, 50) of size 100 x 100.
C9_SourceRectInside ==
    (pc = "rect" /\ RLe(RI(1), options.zoom)) =>
        LET W == RI(image.width)
            H == RI(image.height)
            roomX == RSub(W, RDiv(W, options.zoom))
            roomY == RSub(H, RDiv(H, options.zoom))
            r == work.src
        IN  /\ r.sWidth = RDiv(W, options.zoom) /\ r.sHeight = RDiv(H, options.zoom)
            /\ RLe(RI(0), r.sx) /\ RLe(r.sx, roomX)
            /\ RLe(RI(0), r.sy) /\ RLe(r.sy, roomY)
            /\ r.sx = Clamped(RMul(RAdd(Dec(1, 2), options.offsetX), roomX), RI(0), roomX)
            /\ r.sy = Clamped(RMul(RAdd(Dec(1, 2), options.offsetY), roomY), RI(0), roomY)
            /\ (image.width = 200 /\ image.height = 200 /\ options.zoom = RI(2)
                  /\ options.offsetX = RI(0) /\ options.offsetY = RI(0))
               => r = [sx |-> RI(50), sy |-> RI(50), sWidth |-> RI(100), sHeight |-> RI(100)]

C9_Witness ==
    /\ pc = "rect"
    /\ image.width = 200 /\ image.height = 200 /\ options.zoom = RI(2)
    /\ options.offsetX = RI(0) /\ options.offsetY = RI(0)
    /\ work.src = [sx |-> RI(50), sy |-> RI(50), sWidth |-> RI(100), sHeight |-> RI(100)]

---------------------------------------------------------------------------
(* Claims on calls of processImage (Spec)                                  *)

\* C3: a call with the same source pixels and the same options as the previous
\* call leaves the same sequence of cell colours and accept/reject decisions,
\* also with randomSeed > 0.
C3_Deterministic ==
    (pc \in {"done", "threw"} /\ runs >= 2) => canvas.cells = prevOut

C3_Witness ==
    /\ pc = "done" /\ runs = 2
    /\ options.randomSeed > 0
    /\ cell.target # cell.sample
    /\ canvas.cells = prevOut
    /\ \E i, j \in 1..Len(canvas.cells) : canvas.cells[i].drawn /\ ~canvas.cells[j].drawn

\* C7: a call on a canvas without a 2D context returns without an error and leaves
\* the canvas (width, height, content) as it was.
C7_NoContextNoOp ==
    [][(runs' = runs + 1 /\ ~canvas.ctx) => (pc' = "returned" /\ canvas' = canvas)]_vars

C7_Witness ==
    /\ pc = "returned" /\ runs = 2
    /\ canvas = [PriorCanvas EXCEPT !.ctx = FALSE]

\* C8: no step of processImage changes the options or the palette they carry.
C8_OptionsNeverMutated == [][options' = options]_vars

\* the running seed has advanced and options.randomSeed has not
C8_Witness ==
    /\ pc = "done"
    /\ options.randomSeed > 0
    /\ Len(canvas.cells) > 0
    /\ seed = options.randomSeed + 3 * Len(canvas.cells)

\* the four corners of the padded draw rectangle of the cell at column x, row y
Corners(cs, x, y) ==
    LET pad == RDiv(cs, RI(10))
        lo(i) == RAdd(RMul(RI(i), cs), pad)
        hi(i) == RSub(RMul(RI(i + 1), cs), pad)
    IN  { <<lo(x), lo(y)>>, <<hi(x), lo(y)>>, <<lo(x), hi(y)>>, <<hi(x), hi(y)>> }

\* C10: when a call has ended, each cell it visited is drawn iff the shape is
\* rectangle or all four corners of its padded draw rectangle are inside the
\* silhouette.  For a circle on a 100 x 100
\* working surface with gridSize 10 the cell at row 0, column 0 is rejected and
\* the four cells around the centre are accepted.
C10_DrawnIffCornersInside ==
    (pc \in {"done", "threw"}) =>
        /\ \A k \in 1..Len(canvas.cells) :
              canvas.cells[k].drawn <=>
                  \/ options.shape = "rectangle"
                  \/ \A p \in Corners(work.cellSize, (k - 1) % options.gridSize,
                                      (k - 1) \div options.gridSize) :
                        InPath(options.shape, work, p[1], p[2])
        /\ (pc = "done" /\ options.shape = "circle" /\ options.gridSize = 10
              /\ work.workWidth = RI(100) /\ work.workHeight = RI(100))
           => /\ ~canvas.cells[1].drawn
              /\ \A k \in {45, 46, 55, 56} : canvas.cells[k].drawn

C10_Witness ==
    /\ pc = "done" /\ options.shape = "circle" /\ options.gridSize = 10
    /\ work.workWidth = RI(100) /\ work.workHeight = RI(100)
    /\ ~canvas.cells[1].drawn
    /\ canvas.cells[45].drawn

---------------------------------------------------------------------------
(* Claims on the sampling of a cell (Spec)                                 *)

\* a cell body has run in the present call; LastCell is that cell
Sampled == (pc \in {"scan", "done"} /\ pos > 0) \/ pc = "threw"

LastCell == IF pc = "threw" THEN pos ELSE pos - 1

LastX == LastCell % options.gridSize

LastY == LastCell \div options.gridSize

\* the multiples k of the stride with k * stride < cellSize, among 0 .. 8
AxisSteps(cellSize) ==
    LET f == RFloor(RDiv(cellSize, RI(4)))
        stride == IF f < 1 THEN 1 ELSE f
    IN  {k * stride : k \in {j \in 0..8 : RLt(RI(j * stride), cellSize)}}

\* the sample columns of the cells of column x that pass sampleX < workWidth
PassingXs(w, x) ==
    {X \in {RFloor(RAdd(RMul(RI(x), w.cellSize), RI(cx))) : cx \in AxisSteps(w.cellSize)} :
        RLt(RI(X), w.workWidth)}

\* the sample rows of the cells of row y that pass sampleY < workHeight
PassingYs(w, y) ==
    {Y \in {RFloor(RAdd(RMul(RI(y), w.cellSize), RI(cy))) : cy \in AxisSteps(w.cellSize)} :
        RLt(RI(Y), w.workHeight)}

\* the sample points of the cell at column x, row y that pass the bounds test
PassingPoints(w, x, y) == PassingXs(w, x) \X PassingYs(w, y)

\* the rows of the working surface that hold pixels
HasPixel(w, pt) == pt[2] < RFloor(w.workHeight)

\* the sum of the pixels of row Y at the columns Xs
RECURSIVE SumRow(_, _, _, _)
SumRow(img, w, Xs, Y) ==
    IF Xs = {} THEN RGB(0, 0, 0)
    ELSE LET X == CHOOSE q \in Xs : TRUE
             p == ImgData(img, w, X, Y)
             rest == SumRow(img, w, Xs \ {X}, Y)
         IN  RGB(rest.r + p.r, rest.g + p.g, rest.b + p.b)

\* the sum of the pixels at the columns Xs of the rows Ys
RECURSIVE SumPixels(_, _, _, _)
SumPixels(img, w, Xs, Ys) ==
    IF Ys = {} THEN RGB(0, 0, 0)
    ELSE LET Y == CHOOSE q \in Ys : TRUE
             p == SumRow(img, w, Xs, Y)
             rest == SumPixels(img, w, Xs, Ys \ {Y})
         IN  RGB(rest.r + p.r, rest.g + p.g, rest.b + p.b)

\* sum / n rounded to the nearest integer, halves up
RoundedMean(sum, n) == (2 * sum + n) \div (2 * n)

\* C11 as stated: the sampler reads at most 16 points per cell, at most 4 per
\* axis, and the cell colour is the per-channel mean of the in-bounds samples.
C11_AtMostSixteenSamples ==
    Sampled =>
        LET pts == PassingPoints(work, LastX, LastY)
            sum == SumPixels(image, work, PassingXs(work, LastX), PassingYs(work, LastY))
        IN  /\ samp.count <= 16
            /\ Cardinality(AxisSteps(work.cellSize)) <= 4
            /\ samp.count > 0
            /\ cell.sample = RGB(RoundedMean(sum.r, samp.count),
                                 RoundedMean(sum.g, samp.count),
                                 RoundedMean(sum.b, samp.count))

\* C11, amended: with stride max(1, floor(cellSize / 4)) the sampler visits at most
\* 8 points per axis and reads at most 64 per cell, namely those that pass the
\* bounds test; the cell colour is the per-channel mean of the pixels read, rounded
\* half up, and is NaN when a point that passes the test lies below the last row
\* of pixels of a working surface of fractional height.
C11_SamplesAndRoundedMean ==
    Sampled =>
        LET pts == PassingPoints(work, LastX, LastY)
            sum == SumPixels(image, work, PassingXs(work, LastX),
                             {Y \in PassingYs(work, LastY) : Y < RFloor(work.workHeight)})
        IN  /\ Cardinality(AxisSteps(work.cellSize)) <= 8
            /\ RLe(work.cellSize, RI(8 * Step(work.cellSize)))
            /\ samp.count = Cardinality(pts)
            /\ samp.count <= 64
            /\ samp.count > 0
            /\ IF \A pt \in pts : HasPixel(work, pt)
               THEN cell.sample = RGB(RoundedMean(sum.r, samp.count),
                                      RoundedMean(sum.g, samp.count),
                                      RoundedMean(sum.b, samp.count))
               ELSE cell.sample = NaNColour

\* a cell of size 7.5 has been sampled at 8 x 7 points of differing colours
C11_Witness ==
    /\ Sampled
    /\ samp.count > 49
    /\ ~samp.nan
    /\ cell.sample.r # cell.sample.b

---------------------------------------------------------------------------
(* Claims on the jitter seed (Spec)                                        *)

\* the seed on entering the cell k of a scan with randomSeed > 0
SeedAt(k) == options.randomSeed + 3 * k

\* C13: with randomSeed > 0 the seed on entering the cell k of the row-major scan
\* is randomSeed + 3 * k, the cell draws prng at that seed for R, at the next for
\* G and at the one after for B, and the seed has advanced by three after every
\* cell, drawn or not; with randomSeed = 0 the seed stays and no draw is made.
C13_SeedRunsThroughScan ==
    /\ pc \in {"scan", "done"} =>
          seed = IF options.randomSeed > 0 THEN SeedAt(pos) ELSE options.randomSeed
    /\ pc = "threw" =>
          seed = IF options.randomSeed > 0 THEN SeedAt(pos + 1) ELSE options.randomSeed
    /\ Sampled =>
          /\ cell.seed = seed
          /\ ~IsNaN(cell.sample) =>
                cell.target =
                   Adjust(IF options.randomSeed > 0
                          THEN [r |-> JitterChannel(cell.sample.r, SeedAt(LastCell)),
                                g |-> JitterChannel(cell.sample.g, SeedAt(LastCell) + 1),
                                b |-> JitterChannel(cell.sample.b, SeedAt(LastCell) + 2)]
                          ELSE [r |-> RI(cell.sample.r), g |-> RI(cell.sample.g),
                                b |-> RI(cell.sample.b)],
                          options)

\* a jittered scan has passed a cell the silhouette rejected and one it accepted
C13_Witness ==
    /\ pc = "scan"
    /\ options.randomSeed > 0
    /\ pos >= 2
    /\ seed = options.randomSeed + 3 * pos
    /\ \E i \in 1..Len(canvas.cells) : ~canvas.cells[i].drawn
    /\ canvas.cells[Len(canvas.cells)].drawn
    /\ cell.target # cell.sample

---------------------------------------------------------------------------
(* Claims on the rainbow / popart filter and the blink (SpecColour, Spec)  *)

\* the filter stage of the cell has run
Filtered == pc \in {"coloured", "threw"}

Spread(t) == Max3(t.r, t.g, t.b) - Min3(t.r, t.g, t.b)

\* the two special cases of lines 241-252
Greyish(t) == Spread(t) < 30

Brownish(t) == ~Greyish(t) /\ t.r > t.g /\ t.g > t.b /\ t.r > 60 /\ Spread(t) < 120

Orange == RGB(255, 127, 0)

Entries(palette) == {palette[i] : i \in 1..Len(palette)}

\* the index floor(luma / 256 * length), capped at length - 1
GradientIndex(luma, length) ==
    IF (luma * length) \div 256 < length - 1 THEN (luma * length) \div 256
    ELSE length - 1

GradientEntry(t, palette) == palette[GradientIndex(Luma1000(t), Len(palette)) + 1]

\* the first palette entry at the least distance from t
NearestEntry(t, palette) ==
    palette[CHOOSE i \in Nearest(t, palette) : \A j \in Nearest(t, palette) : i <= j]

\* what the re-quantization of lines 253-266 is to yield on a non-empty palette
Requantized(t, opts) ==
    IF Len(opts.palette) > 5 /\ opts.randomSeed > 0
    THEN NearestEntry(t, opts.palette)
    ELSE GradientEntry(t, opts.palette)

\* C14: with filter popart and a non-empty palette the filter output of every cell
\* is the re-quantized colour, an entry of the palette, whatever the special cases
\* assigned; with filter rainbow the special-case colour of a styled cell is kept
\* and only the other cells are re-quantized.
C14_PopartAlwaysRequantized ==
    Filtered /\ Len(options.palette) > 0 =>
        /\ options.filter = "popart" =>
              /\ pc = "coloured"
              /\ cell.filtered = Requantized(cell.target, options)
              /\ cell.filtered \in Entries(options.palette)
        /\ options.filter = "rainbow" =>
              /\ pc = "coloured"
              /\ Greyish(cell.target) => cell.filtered \in {Black, White}
              /\ Brownish(cell.target) =>
                    cell.filtered = IF Orange \in Entries(options.palette) THEN Orange
                                    ELSE options.palette[1]
              /\ ~Greyish(cell.target) /\ ~Brownish(cell.target) =>
                    cell.filtered = Requantized(cell.target, options)

\* a brownish popart cell whose palette holds orange came out in another colour
C14_Witness ==
    /\ pc = "coloured"
    /\ options.filter = "popart"
    /\ Brownish(cell.target)
    /\ Orange \in Entries(options.palette)
    /\ cell.filtered # Orange
    /\ cell.filtered \in Entries(options.palette)

\* C15: with filter rainbow a cell whose target has max - min < 30 comes out black
\* when (max + min) / 2 < 120 and white otherwise, for every palette, the empty
\* one and those without black or white included.
C15_RainbowGreyToBlackOrWhite ==
    Filtered /\ options.filter = "rainbow" /\ Greyish(cell.target) =>
        /\ pc = "coloured"
        /\ cell.filtered =
              IF Max3(cell.target.r, cell.target.g, cell.target.b)
                   + Min3(cell.target.r, cell.target.g, cell.target.b) < 240
              THEN Black ELSE White

\* a greyish rainbow cell came out black although the palette is empty
C15_Witness ==
    /\ pc = "coloured"
    /\ options.filter = "rainbow"
    /\ options.palette = <<>>
    /\ Greyish(cell.target)
    /\ cell.target # Black
    /\ cell.filtered = Black

\* the re-quantization step has run for the cell
RequantizationRan ==
    /\ Filtered
    /\ \/ options.filter = "popart"
       \/ options.filter = "rainbow" /\ ~Greyish(cell.target) /\ ~Brownish(cell.target)

\* floor(luma / 256 * length) is an index of the palette without the cap
IndexAlwaysInPalette ==
    \A luma \in 0..255 : \A length \in 1..30 :
        /\ (luma * length) \div 256 \in 0..(length - 1)
        /\ GradientIndex(luma, length) = (luma * length) \div 256

\* C16: on a non-empty palette the re-quantization yields the nearest entry if the
\* palette has more than 5 entries and randomSeed > 0, and otherwise the entry at
\* min(floor(luma / 256 * length), length - 1); for every luma in 0 .. 255 and
\* every length in 1 .. 30 that index lies in 0 .. length - 1.
C16_NearestOrGradient ==
    /\ RequantizationRan /\ Len(options.palette) > 0 =>
          /\ pc = "coloured"
          /\ Len(options.palette) > 5 /\ options.randomSeed > 0 =>
                cell.filtered = NearestEntry(cell.target, options.palette)
          /\ ~(Len(options.palette) > 5 /\ options.randomSeed > 0) =>
                cell.filtered = GradientEntry(cell.target, options.palette)
    /\ IndexAlwaysInPalette

\* a palette of more than 5 entries was indexed by luma, randomSeed being 0, where
\* the nearest entry is another colour
C16_Witness ==
    /\ pc = "coloured"
    /\ RequantizationRan
    /\ Len(options.palette) > 5
    /\ options.randomSeed = 0
    /\ cell.filtered = GradientEntry(cell.target, options.palette)
    /\ cell.filtered # NearestEntry(cell.target, options.palette)

\* C17: with blinkState true the final colour of a cell whose 1-based row or column
\* index is a multiple of 10 is (50,50,50) when the luma of its colour after the
\* filter and the desaturation is above 128 and white otherwise; every other cell,
\* and every cell when blinkState is false, keeps that colour.
C17_BlinkEveryTenth ==
    Sampled =>
        cell.out =
           IF options.blinkState /\ ((LastX + 1) % 10 = 0 \/ (LastY + 1) % 10 = 0)
           THEN (IF Luma1000(cell.desat) > 128 THEN RGB(50, 50, 50) ELSE White)
           ELSE cell.desat

\* a bright cell of the tenth row, not of the tenth column, was flashed dark grey
C17_Witness ==
    /\ Sampled
    /\ options.blinkState
    /\ LastY = 9
    /\ LastX = 4
    /\ cell.desat # cell.out
    /\ cell.out = RGB(50, 50, 50)

---------------------------------------------------------------------------
(* Claim on the sample count (Spec)                                        *)

\* C20: every cell the scan visits lies in a column below gridSize and in a row
\* that starts above the bottom of the working surface, its top-left sample point
\* passes the bounds test, and so its sample count is at least 1: the colour of a
\* cell without samples is never used.
C20_EveryCellHasSample ==
    Sampled =>
        /\ LastX \in 0..(options.gridSize - 1)
        /\ RLt(RMul(RI(LastY), work.cellSize), work.workHeight)
        /\ RLt(RI(RFloor(RMul(RI(LastX), work.cellSize))), work.workWidth)
        /\ RLt(RI(RFloor(RMul(RI(LastY), work.cellSize))), work.workHeight)
        /\ <<RFloor(RMul(RI(LastX), work.cellSize)),
             RFloor(RMul(RI(LastY), work.cellSize))>> \in PassingPoints(work, LastX, LastY)
        /\ samp.count >= 1

\* a cell of the last row reaches below the working surface and keeps only a part
\* of its sample points
C20_Witness ==
    /\ Sampled
    /\ LastY = work.rows - 1
    /\ LastY > 0
    /\ samp.count >= 1
    /\ samp.count < Cardinality(AxisSteps(work.cellSize)) * Cardinality(AxisSteps(work.cellSize))

---------------------------------------------------------------------------
(* Claims on the application (SpecApp)                                     *)

\* C12 as stated: a configuration change made while the re-render of an earlier
\* change is pending supersedes it, so that every pending re-render belongs to the
\* latest change and processImage runs once for the burst, with the latest
\* configuration.
C12_EditsCoalesced ==
    /\ Len(timers) <= 1
    /\ \A i \in 1..Len(timers) :
          /\ timers[i].version = app.version
          /\ timers[i].cfg = Captured(app)

\* the versions of the calls made, then of the timers pending, in order
Versions ==
    [i \in 1..(Len(calls) + Len(timers)) |->
        IF i <= Len(calls) THEN calls[i].version ELSE timers[i - Len(calls)].version]

\* C18: the calls of processImage run one at a time in the order of the changes
\* that caused them, each with the configuration its change left; the newest
\* pending timer holds the present configuration, and once no timer is pending
\* the last call made used the present configuration.
C18_CallsInOrderLatestLast ==
    /\ [](/\ \A i \in 1..(Len(calls) + Len(timers)) : \A j \in 1..(i - 1) :
                Versions[j] < Versions[i]
          /\ \A i \in 1..Len(timers) :
                timers[i].version = app.version => timers[i].cfg = Captured(app)
          /\ app.image /\ timers = <<>> =>
                /\ calls # <<>>
                /\ calls[Len(calls)].version = app.version
                /\ calls[Len(calls)].options = ActiveOptions(Captured(app))
                /\ options = ActiveOptions(Captured(app))
          /\ ~app.image => timers = <<>> /\ calls = <<>>)
    /\ [][/\ calls' # calls =>
                /\ timers # <<>>
                /\ timers' = Tail(timers)
                /\ calls' = Append(calls, [version |-> Head(timers).version,
                                           options |-> ActiveOptions(Head(timers).cfg)])
                /\ runs' = runs + 1
          /\ timers' # timers /\ calls' = calls =>
                /\ app.image \/ app'.image
                /\ timers' = Append(timers, [version |-> app.version + 1,
                                             cfg |-> Captured(app')])
                /\ app'.version = app.version + 1]_vars

\* two changes were made while the render of the first load was pending, the three
\* calls have run, and the first two used configurations that are no longer
\* the present one
C18_Witness ==
    /\ app.image
    /\ timers = <<>>
    /\ Len(calls) = 3
    /\ calls[1].options # calls[2].options
    /\ calls[2].options # calls[3].options
    /\ calls[3].options = ActiveOptions(Captured(app))

\* C19: the pop palette has between 1 and 30 entries and the noir palette exactly
\* 2, and every call of processImage made or pending with filter noir, rainbow or
\* popart passes a palette of at least one entry.
C19_PalettesNeverEmpty ==
    /\ Len(app.popPalette) \in 1..30
    /\ Len(app.noirPalette) = 2
    /\ \A i \in 1..Len(calls) :
          calls[i].options.filter \in {"noir", "rainbow", "popart"} =>
             Len(calls[i].options.palette) >= 1
    /\ \A i \in 1..Len(timers) :
          timers[i].cfg.filter \in {"noir", "rainbow", "popart"} =>
             Len(ActivePalette(timers[i].cfg)) >= 1

\* the pop palette was cut down to its last entry, a further removal and an
\* addition at 30 entries aside, and processImage was called with it
C19_Witness ==
    /\ Len(app.popPalette) = 1
    /\ calls # <<>>
    /\ calls[Len(calls)].options.filter = "popart"
    /\ calls[Len(calls)].options.palette = app.popPalette

---------------------------------------------------------------------------
(* Claim on the early returns of processImage (Spec)                       *)

\* C21 as stated: every early return of processImage (target context missing,
\* line 96, or offscreen context missing, line 116) leaves the target canvas with
\* the width, height and pixel content it had before the call.
C21_EarlyReturnsLeaveCanvas ==
    [][(runs' = runs + 1 /\ pc' = "returned") => canvas' = canvas]_vars

=============================================================================
